---- MODULE Spec2Model ----
(***************************************************************************)
(* DeferredRegex (deferred_regex.go): a wrapper around regexp.Regexp that  *)
(* compiles its pattern on first use, behind a sync.Once.                  *)
(*                                                                         *)
(* A Go string is modelled as a sequence of one-character strings, a       *)
(* []byte as a sequence of byte values; string(b) and []byte(s) convert    *)
(* between the two.  Every Go statement of the wrapper is one step; the    *)
(* steps of concurrent callers interleave freely.                          *)
(* A read or a write of dr.Re is one step: a read of the string torn by a  *)
(* concurrent, unsynchronised load is outside the model.                   *)
(***************************************************************************)
EXTENDS Integers, Sequences, FiniteSets, TLC

(***************************************************************************)
(* Bounds of the model.                                                    *)
(***************************************************************************)
\* The number of callers (goroutines); each makes one call.
NumCallers == 3

Callers == 1..NumCallers

(***************************************************************************)
(* Strings and byte slices.                                                *)
(***************************************************************************)
AsciiTable ==
  << <<"(", 40>>, <<")", 41>>, <<"+", 43>>, <<"-", 45>>, <<".", 46>>,
     <<"0", 48>>, <<"1", 49>>, <<"2", 50>>, <<"3", 51>>, <<"9", 57>>,
     <<"[", 91>>, <<"\\", 92>>, <<"]", 93>>, <<"a", 97>>, <<"b", 98>>,
     <<"|", 124>> >>

Ord(c) == (CHOOSE i \in DOMAIN AsciiTable : AsciiTable[i][1] = c)
Byte(c) == AsciiTable[Ord(c)][2]
Chr(b) == AsciiTable[CHOOSE i \in DOMAIN AsciiTable : AsciiTable[i][2] = b][1]

\* []byte(s)
BytesOf(s) == [i \in 1..Len(s) |-> Byte(s[i])]
\* A conversion that takes the backslash for an escape and drops it.
StringOfUnescaped(b) ==
  LET Plain(c) == [i \in 1..Len(c) |-> Chr(c[i])]
  IN Plain(SelectSeq(b, LAMBDA x : x # 92))

\* string(b)
StringOf(b) == [i \in 1..Len(b) |-> Chr(b[i])]

(***************************************************************************)
(* The patterns, texts and inputs the callers draw from.                   *)
(***************************************************************************)
\* `([0-9]+)\.([0-9]+)\.([0-9]+)`
ex ==
  << "(", "[", "0", "-", "9", "]", "+", ")", "\\", ".",
     "(", "[", "0", "-", "9", "]", "+", ")", "\\", ".",
     "(", "[", "0", "-", "9", "]", "+", ")" >>

Patterns == {ex, <<"a", "|", "a", "b">>, <<"(">>, << >>}

Inputs == { <<"1", ".", "2", ".", "3">>, <<"a", "b">> }

\* The inputs of ReplaceAllStringFunc.
ReplInputs == { <<"a">> }

Texts == {BytesOf(P) : P \in Patterns}

(***************************************************************************)
(* The Pattern Engine (package regexp), restricted to the syntax the       *)
(* patterns above use: literals, ".", "\" + punctuation, "[x-y]", groups,  *)
(* "|", and the repetitions "+", "*" and "?".                              *)
(***************************************************************************)
RepeatOps == {"+", "*", "?"}
Punct == {"(", ")", "[", "]", "+", "-", ".", "\\", "|"}

ParseFail == [ok |-> FALSE]

RECURSIVE ParseAlt(_, _, _)
RECURSIVE ParseConcat(_, _, _)

\* One atom at s[i]; n groups were opened so far.
ParseAtom(s, i, n) ==
  IF i > Len(s) THEN ParseFail
  ELSE IF s[i] = "(" THEN
    LET Close(r) ==
          IF r.ok /\ r.pos <= Len(s) /\ s[r.pos] = ")"
          THEN [ok |-> TRUE, node |-> [t |-> "group", k |-> n + 1, a |-> r.node],
                pos |-> r.pos + 1, ncap |-> r.ncap]
          ELSE ParseFail
    IN Close(ParseAlt(s, i + 1, n + 1))
  ELSE IF s[i] = "[" THEN
    IF /\ i + 4 <= Len(s)
       /\ s[i + 2] = "-"
       /\ s[i + 4] = "]"
       /\ s[i + 1] \notin {"\\", "]"}
       /\ s[i + 3] \notin {"\\", "]"}
       /\ Byte(s[i + 1]) <= Byte(s[i + 3])
    THEN [ok |-> TRUE, node |-> [t |-> "class", lo |-> s[i + 1], hi |-> s[i + 3]],
          pos |-> i + 5, ncap |-> n]
    ELSE ParseFail
  ELSE IF s[i] = "\\" THEN
    IF i + 1 <= Len(s) /\ s[i + 1] \in Punct
    THEN [ok |-> TRUE, node |-> [t |-> "lit", c |-> s[i + 1]], pos |-> i + 2, ncap |-> n]
    ELSE ParseFail
  ELSE IF s[i] \in RepeatOps \cup {")", "|"} THEN ParseFail
  ELSE IF s[i] = "." THEN [ok |-> TRUE, node |-> [t |-> "any"], pos |-> i + 1, ncap |-> n]
  ELSE [ok |-> TRUE, node |-> [t |-> "lit", c |-> s[i]], pos |-> i + 1, ncap |-> n]

\* An atom and at most one repetition operator after it.
ParseRepeat(s, i, n) ==
  LET Rep(r) ==
        IF r.ok /\ r.pos <= Len(s) /\ s[r.pos] \in RepeatOps
        THEN [r EXCEPT !.node = [t |-> s[r.pos], a |-> r.node], !.pos = r.pos + 1]
        ELSE r
  IN Rep(ParseAtom(s, i, n))

ParseConcat(s, i, n) ==
  IF i > Len(s) \/ s[i] \in {")", "|"}
  THEN [ok |-> TRUE, node |-> [t |-> "empty"], pos |-> i, ncap |-> n]
  ELSE
    LET Join(r, rest) ==
          IF ~rest.ok THEN ParseFail
          ELSE [rest EXCEPT !.node = [t |-> "cat", a |-> r.node, b |-> rest.node]]
        Cat(r) ==
          IF ~r.ok THEN ParseFail ELSE Join(r, ParseConcat(s, r.pos, r.ncap))
    IN Cat(ParseRepeat(s, i, n))

ParseAlt(s, i, n) ==
  LET Join(l, r) ==
        IF ~r.ok THEN ParseFail
        ELSE [r EXCEPT !.node = [t |-> "alt", a |-> l.node, b |-> r.node]]
      Alt(l) ==
        IF l.ok /\ l.pos <= Len(s) /\ s[l.pos] = "|"
        THEN Join(l, ParseAlt(s, l.pos + 1, l.ncap))
        ELSE l
  IN Alt(ParseConcat(s, i, n))

\* syntax.Parse: the whole pattern must be consumed.
ParseText(s) ==
  LET Whole(r) == IF r.ok /\ r.pos = Len(s) + 1 THEN r ELSE ParseFail
  IN Whole(ParseAlt(s, 1, 0))

\* The parses of the patterns in use, computed once.
Parsed == [P \in Patterns |-> ParseText(P)]

Parse(s) == IF s \in Patterns THEN Parsed[s] ELSE ParseText(s)

ValidPattern(s) == Parse(s).ok

NoCaps(n) == [k \in 1..n |-> <<-1, -1>>]

RECURSIVE Thread(_, _, _, _)
RECURSIVE Then(_, _, _)
RECURSIVE Loop(_, _, _, _)

\* The ways node can match s from offset i, in the engine's order of
\* preference (leftmost-first); each is the end offset and the captures.
Thread(node, s, i, caps) ==
  LET here == << [pos |-> i, caps |-> caps] >>
      Step(ok) == IF ok THEN << [pos |-> i + 1, caps |-> caps] >> ELSE << >>
      With(rs) ==
        CASE node.t = "group" ->
               [j \in 1..Len(rs) |->
                  [rs[j] EXCEPT !.caps = [@ EXCEPT ![node.k] = <<i, rs[j].pos>>]]]
          [] node.t \in {"cat", "alt"} ->
               (IF node.t = "alt" THEN rs ELSE << >>)
               \o Then(IF node.t = "alt" THEN here ELSE rs, node.b, s)
          [] node.t = "?" -> rs \o here
          [] node.t \in {"+", "*"} ->
               Loop(rs, node, s, i) \o (IF node.t = "*" THEN here ELSE << >>)
  IN CASE node.t = "empty" -> here
       [] node.t = "lit" -> Step(i < Len(s) /\ s[i + 1] = node.c)
       [] node.t = "any" -> Step(i < Len(s))
       [] node.t = "class" ->
            Step(i < Len(s) /\ Byte(node.lo) <= Byte(s[i + 1])
                            /\ Byte(s[i + 1]) <= Byte(node.hi))
       [] OTHER -> With(Thread(node.a, s, i, caps))

\* Continue each of rs with node.
Then(rs, node, s) ==
  IF rs = << >> THEN << >>
  ELSE Thread(node, s, Head(rs).pos, Head(rs).caps) \o Then(Tail(rs), node, s)

\* Greedy repetition: after one iteration, more iterations are preferred.
Loop(rs, node, s, i) ==
  IF rs = << >> THEN << >>
  ELSE (IF Head(rs).pos > i
        THEN Then(<< Head(rs) >>, [t |-> "*", a |-> node.a], s)
        ELSE << Head(rs) >>)
       \o Loop(Tail(rs), node, s, i)

RECURSIVE Longer(_)
\* The first of the longest among rs.
Longer(rs) ==
  LET Pick(m) == IF rs[1].pos >= m.pos THEN rs[1] ELSE m
  IN IF Len(rs) = 1 THEN rs[1] ELSE Pick(Longer(Tail(rs)))

NoMatch == [found |-> FALSE]

RECURSIVE SearchFrom(_, _, _)
\* The leftmost match of the compiled object in s, from offset i on.
SearchFrom(obj, s, i) ==
  LET Found(r) == [found |-> TRUE, start |-> i, end |-> r.pos, caps |-> r.caps]
      Try(rs) ==
        IF rs = << >> THEN SearchFrom(obj, s, i + 1)
        ELSE Found(IF obj.longest THEN Longer(rs) ELSE rs[1])
      Run(p) == Try(Thread(p.node, s, i, NoCaps(p.ncap)))
  IN IF i > Len(s) THEN NoMatch ELSE Run(Parse(obj.expr))

\* The searches of the inputs in use by the objects in use, computed once.
Searched ==
  [k \in {<<P, l, s, i>> \in Patterns \X BOOLEAN \X (Inputs \cup ReplInputs) \X (0..5) :
            Parsed[P].ok /\ i <= Len(s)}
     |-> SearchFrom([expr |-> k[1], longest |-> k[2]], k[3], k[4])]

Search(obj, s, i) ==
  IF <<obj.expr, obj.longest, s, i>> \in DOMAIN Searched
  THEN Searched[<<obj.expr, obj.longest, s, i>>]
  ELSE SearchFrom(obj, s, i)

\* regexp.MustCompile: the compiled object, or a panic on an invalid pattern.
MustCompile(str) ==
  IF ValidPattern(str)
  THEN [ok |-> TRUE, obj |-> [expr |-> str, longest |-> FALSE]]
  ELSE [ok |-> FALSE]

\* (*Regexp).MatchString
reMatchString(obj, s) == [b |-> Search(obj, s, 0).found]

\* (*Regexp).FindStringSubmatch: nil, or the match followed by the groups.
reFindStringSubmatch(obj, s) ==
  LET Strs(m) ==
        IF ~m.found THEN [nil |-> TRUE]
        ELSE [strs |-> << SubSeq(s, m.start + 1, m.end) >> \o
                       [k \in 1..Len(m.caps) |->
                          IF m.caps[k][1] < 0 THEN << >>
                          ELSE SubSeq(s, m.caps[k][1] + 1, m.caps[k][2])]]
  IN Strs(Search(obj, s, 0))

\* (*Regexp).String
reString(obj) == [s |-> obj.expr]

\* (*Regexp).Longest
reLongest(obj) == [obj EXCEPT !.longest = TRUE]

\* What the function given to ReplaceAllStringFunc returns for a match.
Repl == <<"-">>

\* The state of (*Regexp).ReplaceAllStringFunc(s, repl) on entry.
NewFrame(s) == [on |-> TRUE, s |-> s, pos |-> 0, lastEnd |-> 0, buf |-> << >>]

RECURSIVE RunReplace(_, _)
\* The loop of (*Regexp).replaceAll from f on: to the end, or to the next
\* call of repl.  A match is replaced unless it is empty and follows a match
\* at once; the search moves on by at least one character.
RunReplace(f, obj) ==
  LET Rest == SubSeq(f.s, f.lastEnd + 1, Len(f.s))
      Width == IF f.pos < Len(f.s) THEN 1 ELSE 0
      Adv(m) == IF f.pos + Width > m.end THEN f.pos + Width
                ELSE IF f.pos + 1 > m.end THEN f.pos + 1 ELSE m.end
      After(m) == [f EXCEPT !.pos = Adv(m), !.lastEnd = m.end,
                            !.buf = @ \o SubSeq(f.s, f.lastEnd + 1, m.start)]
      On(m) ==
        IF ~m.found THEN [done |-> TRUE, buf |-> f.buf \o Rest]
        ELSE IF m.end > f.lastEnd \/ m.start = 0
             THEN [done |-> FALSE, frame |-> After(m)]
             ELSE RunReplace(After(m), obj)
  IN IF f.pos > Len(f.s) THEN [done |-> TRUE, buf |-> f.buf \o Rest]
     ELSE On(Search(obj, f.s, f.pos))

UseOps == {"MatchString", "FindStringSubmatch", "String", "Longest"}
LoadOps == {"UnmarshalText", "UnmarshalFlag"}
RenderOps == {"MarshalText", "MarshalFlag"}

\* A delegation whose FindStringSubmatch drops the capture groups.
DelegatedWholeMatch(o, obj, a) ==
  CASE o = "MatchString" -> reMatchString(obj, a)
    [] o = "FindStringSubmatch" ->
         LET Whole(r) == IF "nil" \in DOMAIN r THEN r ELSE [strs |-> << r.strs[1] >>]
         IN Whole(reFindStringSubmatch(obj, a))
    [] o = "String" -> reString(obj)
    [] o = "Longest" -> [unit |-> TRUE]

\* What the compiled object answers to a pass-through operation.
Delegated(o, obj, a) ==
  CASE o = "MatchString" -> reMatchString(obj, a)
    [] o = "FindStringSubmatch" -> reFindStringSubmatch(obj, a)
    [] o = "String" -> reString(obj)
    [] o = "Longest" -> [unit |-> TRUE]

\* A Longest that is not applied to the object the matches use.
ObjAfterCopy(o, obj) == obj

\* A MatchString that leaves the object in leftmost-longest mode, too.
ObjAfterMatch(o, obj) ==
  IF o \in {"Longest", "MatchString"} THEN reLongest(obj) ELSE obj

\* The compiled object after the operation.
ObjAfter(o, obj) == IF o = "Longest" THEN reLongest(obj) ELSE obj

(***************************************************************************)
(* State.  The callers are goroutines sharing one DeferredRegex; each      *)
(* makes one call.  A goroutine that makes several calls in a row is the   *)
(* same as several callers, each entering after the one before returned.   *)
(***************************************************************************)
VARIABLES
  Re,          \* dr.Re, the pattern
  once,        \* dr.once: done, and the caller holding its mutex m (0: none)
  re,          \* dr.re: nil, or the compiled object
  pc,          \* where each caller is
  panicking,   \* the callers a panic is unwinding
  last,        \* the call that completed last, and what it returned
  crashed,     \* an unrecovered panic has ended the program
  compiles,    \* how many times regexp.MustCompile was called
  first,       \* the pattern the first compilation was given
  Re0,         \* the pattern the instance was constructed with
  loaded,      \* the load that happened last
  used,        \* a pass-through operation has been entered
  refLongest,  \* Longest has been delegated to the compiled object
  cb           \* each caller's ReplaceAllStringFunc in progress, if any

vars ==
  << Re, once, re, pc, panicking, last, crashed, compiles, first, Re0, loaded, used,
     refLongest, cb >>

NilRe == [nil |-> TRUE]
NoCall == [op |-> "none", st |-> "none"]
NoFrame == [on |-> FALSE]

\* DeferredRegex{Re: P}; the zero value has the empty pattern.
Init ==
  /\ Re \in Patterns
  /\ Re0 = Re
  /\ once = [done |-> FALSE, m |-> 0]
  /\ re = NilRe
  /\ pc = [p \in Callers |-> "idle"]
  /\ panicking = {}
  /\ last = NoCall
  /\ crashed = FALSE
  /\ compiles = 0
  /\ first = [set |-> FALSE]
  /\ loaded = NoCall
  /\ used = FALSE
  /\ refLongest = FALSE
  /\ cb = [p \in Callers |-> NoFrame]

\* Callers are interchangeable: they enter in the order of their numbers.
CanCall(p) ==
  /\ ~crashed
  /\ pc[p] = "idle"
  /\ IF p = 1 THEN TRUE ELSE pc[p - 1] # "idle"

(***************************************************************************)
(* The (de)serialization pairs.  What a method does to the instance it is  *)
(* called on, and what it returns, is a function of the instance; the      *)
(* action is a caller's call of it on the shared instance.                 *)
(***************************************************************************)
\* The instance as a value.
dr == [Re |-> Re, once |-> once, re |-> re]

\* DeferredRegex{Re: P}
Fresh(P) == [Re |-> P, once |-> [done |-> FALSE, m |-> 0], re |-> NilRe]

\* UnmarshalText compiling the pattern as it loads it.
UnmarshalTextEager(d, text) ==
  [dr |-> [Re |-> StringOf(text),
           once |-> [d.once EXCEPT !.done = TRUE],
           re |-> IF MustCompile(StringOf(text)).ok
                  THEN [id |-> 1] @@ MustCompile(StringOf(text)).obj ELSE NilRe],
   err |-> "nil"]

\* UnmarshalText discarding the compiled object, so that the next use
\* compiles the new pattern.
UnmarshalTextReset(d, text) ==
  [dr |-> [Re |-> StringOf(text),
           once |-> [d.once EXCEPT !.done = FALSE],
           re |-> NilRe],
   err |-> "nil"]

\* UnmarshalText validating the text, and refusing an invalid pattern.
UnmarshalTextChecked(d, text) ==
  IF ValidPattern(StringOf(text))
  THEN [dr |-> [d EXCEPT !.Re = StringOf(text)], err |-> "nil"]
  ELSE [dr |-> d, err |-> "error parsing regexp"]

\* dr.Re = string(text); return nil
UnmarshalTextOf(d, text) == [dr |-> [d EXCEPT !.Re = StringOf(text)], err |-> "nil"]

\* MarshalText rendering the pattern of the compiled object, when there is one.
MarshalTextCompiled(d) ==
  [dr |-> d,
   val |-> IF d.re = NilRe THEN BytesOf(d.Re) ELSE BytesOf(d.re.expr),
   err |-> "nil"]

\* return []byte(dr.Re), nil
MarshalTextOf(d) == [dr |-> d, val |-> BytesOf(d.Re), err |-> "nil"]

\* UnmarshalFlag leaving the pattern alone once the compilation has run.
UnmarshalFlagFrozen(d, in) ==
  [dr |-> IF d.once.done THEN d ELSE [d EXCEPT !.Re = in], err |-> "nil"]

\* UnmarshalFlag discarding the compiled object and re-arming the gate.
UnmarshalFlagReset(d, in) ==
  [dr |-> [Re |-> in, once |-> [d.once EXCEPT !.done = FALSE], re |-> NilRe],
   err |-> "nil"]

\* dr.Re = in; return nil
UnmarshalFlagOf(d, in) == [dr |-> [d EXCEPT !.Re = in], err |-> "nil"]

\* MarshalFlag rendering the pattern of the compiled object, when there is one.
MarshalFlagCompiled(d) ==
  [dr |-> d, val |-> IF d.re = NilRe THEN d.Re ELSE d.re.expr, err |-> "nil"]

\* return dr.Re, nil
MarshalFlagOf(d) == [dr |-> d, val |-> d.Re, err |-> "nil"]

\* Caller p's call of load or render o, with argument a, returns r.
Returns(p, o, a, r) ==
  /\ Re' = r.dr.Re
  /\ once' = r.dr.once
  /\ re' = r.dr.re
  /\ pc' = [pc EXCEPT ![p] = "done"]
  /\ last' = IF o \in LoadOps
             THEN [op |-> o, arg |-> a, st |-> "ok", err |-> r.err]
             ELSE [op |-> o, st |-> "ok", val |-> r.val, err |-> r.err]
  /\ loaded' = IF o \in LoadOps
               THEN [op |-> o, arg |-> a,
                     echo |-> IF o = "UnmarshalText"
                              THEN last.op = "MarshalText" /\ last.val = a
                              ELSE last.op = "MarshalFlag" /\ last.val = a]
               ELSE loaded
  /\ UNCHANGED << panicking, crashed, compiles, first, Re0, used, refLongest, cb >>

UnmarshalText(p, text) ==
  /\ CanCall(p)
  /\ Returns(p, "UnmarshalText", text, UnmarshalTextOf(dr, text))

MarshalText(p) ==
  /\ CanCall(p)
  /\ Returns(p, "MarshalText", << >>, MarshalTextOf(dr))

UnmarshalFlag(p, in) ==
  /\ CanCall(p)
  /\ Returns(p, "UnmarshalFlag", in, UnmarshalFlagOf(dr, in))

MarshalFlag(p) ==
  /\ CanCall(p)
  /\ Returns(p, "MarshalFlag", << >>, MarshalFlagOf(dr))

(***************************************************************************)
(* The pass-through operations.  Each is dr.init() followed by the call of *)
(* the same method of dr.re.  Which operation a caller is in shows only    *)
(* when it delegates, so Enter stands for the entry of any of them and the *)
(* operation and its argument are drawn at the delegation.                 *)
(***************************************************************************)
\* A caller enters a pass-through operation: dr.init() is its first statement.
Enter(p) ==
  /\ CanCall(p)
  /\ pc' = [pc EXCEPT ![p] = "init"]
  /\ used' = TRUE
  /\ UNCHANGED << Re, once, re, panicking, last, crashed, compiles, first, Re0, loaded,
                  refLongest, cb >>

\* once.Do without the fast path: every call goes on to the mutex.
OnceDoNoFastPath(p) ==
  /\ ~crashed
  /\ pc[p] = "init"
  /\ pc' = [pc EXCEPT ![p] = "doSlow"]
  /\ UNCHANGED << Re, once, re, panicking, last, crashed, compiles, first, Re0, loaded,
                  used, refLongest, cb >>

\* once.Do: the fast path reads done.
OnceDo(p) ==
  /\ ~crashed
  /\ pc[p] = "init"
  /\ pc' = [pc EXCEPT ![p] = IF once.done THEN "delegate" ELSE "doSlow"]
  /\ UNCHANGED << Re, once, re, panicking, last, crashed, compiles, first, Re0, loaded,
                  used, refLongest, cb >>

\* DoSlow without the second read of done: whoever gets the mutex runs f.
DoSlowNoRecheck(p) ==
  /\ ~crashed
  /\ pc[p] = "doSlow"
  /\ once.m = 0
  /\ once' = [once EXCEPT !.m = p]
  /\ pc' = [pc EXCEPT ![p] = "f"]
  /\ UNCHANGED << Re, re, panicking, last, crashed, compiles, first, Re0, loaded, used,
                  refLongest, cb >>

\* DoSlow storing done before f has run instead of after it.
DoSlowDoneFirst(p) ==
  /\ ~crashed
  /\ pc[p] = "doSlow"
  /\ once.m = 0
  /\ once' = [done |-> TRUE, m |-> p]
  /\ pc' = [pc EXCEPT ![p] = IF once.done THEN "unlock" ELSE "f"]
  /\ UNCHANGED << Re, re, panicking, last, crashed, compiles, first, Re0, loaded, used,
                  refLongest, cb >>

\* once.doSlow: take the mutex, and read done again under it.
DoSlow(p) ==
  /\ ~crashed
  /\ pc[p] = "doSlow"
  /\ once.m = 0
  /\ once' = [once EXCEPT !.m = p]
  /\ pc' = [pc EXCEPT ![p] = IF once.done THEN "unlock" ELSE "f"]
  /\ UNCHANGED << Re, re, panicking, last, crashed, compiles, first, Re0, loaded, used,
                  refLongest, cb >>

\* The function dropping the pattern string once it is compiled.
InitFuncClearsPattern(p) ==
  /\ ~crashed
  /\ pc[p] = "f"
  /\ compiles' = compiles + 1
  /\ first' = IF first.set THEN first ELSE [set |-> TRUE, P |-> Re]
  /\ IF MustCompile(Re).ok
     THEN /\ re' = [id |-> compiles + 1] @@ MustCompile(Re).obj
          /\ Re' = << >>
          /\ panicking' = panicking
     ELSE /\ re' = re
          /\ Re' = Re
          /\ panicking' = panicking \cup {p}
  /\ pc' = [pc EXCEPT ![p] = "deferDone"]
  /\ UNCHANGED << once, last, crashed, Re0, loaded, used, refLongest, cb >>

\* The function compiling the pattern the instance was constructed with,
\* not the one dr.Re holds now.
InitFuncConstructed(p) ==
  /\ ~crashed
  /\ pc[p] = "f"
  /\ compiles' = compiles + 1
  /\ first' = IF first.set THEN first ELSE [set |-> TRUE, P |-> Re]
  /\ IF MustCompile(Re0).ok
     THEN /\ re' = [id |-> compiles + 1] @@ MustCompile(Re0).obj
          /\ panicking' = panicking
     ELSE /\ re' = re
          /\ panicking' = panicking \cup {p}
  /\ pc' = [pc EXCEPT ![p] = "deferDone"]
  /\ UNCHANGED << Re, once, last, crashed, Re0, loaded, used, refLongest, cb >>

\* The function given to once.Do: dr.re = regexp.MustCompile(dr.Re).
InitFunc(p) ==
  /\ ~crashed
  /\ pc[p] = "f"
  /\ compiles' = compiles + 1
  /\ first' = IF first.set THEN first ELSE [set |-> TRUE, P |-> Re]
  /\ re' = IF MustCompile(Re).ok THEN [id |-> compiles + 1] @@ MustCompile(Re).obj
           ELSE re
  /\ panicking' = IF MustCompile(Re).ok THEN panicking ELSE panicking \cup {p}
  /\ pc' = [pc EXCEPT ![p] = "deferDone"]
  /\ UNCHANGED << Re, once, last, crashed, Re0, loaded, used, refLongest, cb >>

\* A gate that stays open when f panics: done is stored only after f returned.
DeferDoneUnlessPanic(p) ==
  /\ ~crashed
  /\ pc[p] = "deferDone"
  /\ once' = [once EXCEPT !.done = (p \notin panicking)]
  /\ pc' = [pc EXCEPT ![p] = "deferUnlock"]
  /\ UNCHANGED << Re, re, panicking, last, crashed, compiles, first, Re0, loaded, used,
                  refLongest, cb >>

\* doSlow's deferred done.Store(1); it runs when f panics, too.
DeferDone(p) ==
  /\ ~crashed
  /\ pc[p] = "deferDone"
  /\ once' = [once EXCEPT !.done = TRUE]
  /\ pc' = [pc EXCEPT ![p] = "deferUnlock"]
  /\ UNCHANGED << Re, re, panicking, last, crashed, compiles, first, Re0, loaded, used,
                  refLongest, cb >>

\* doSlow's deferred m.Unlock() after the function ran; the same unlock without
\* the function's panic in flight.
UnlockUnlessPanic(p) ==
  /\ ~crashed
  /\ pc[p] \in {"deferUnlock", "unlock"}
  /\ once' = [once EXCEPT !.m = IF p \in panicking THEN once.m ELSE 0]
  /\ pc' = [pc EXCEPT ![p] = IF p \in panicking THEN "unwind" ELSE "delegate"]
  /\ UNCHANGED << Re, re, panicking, last, crashed, compiles, first, Re0, loaded, used,
                  refLongest, cb >>

\* doSlow's deferred m.Unlock(), at "deferUnlock" after the function ran and at
\* "unlock" when done was found stored; then init returns, or the panic goes on.
DeferUnlock(p) ==
  /\ ~crashed
  /\ pc[p] \in {"deferUnlock", "unlock"}
  /\ once' = [once EXCEPT !.m = 0]
  /\ pc' = [pc EXCEPT ![p] = IF p \in panicking THEN "unwind" ELSE "delegate"]
  /\ UNCHANGED << Re, re, panicking, last, crashed, compiles, first, Re0, loaded, used,
                  refLongest, cb >>

\* return dr.re.<o>(<a>); a nil dr.re panics.  A call made by the function
\* given to ReplaceAllStringFunc returns into that function.
Delegate(p, o, a) ==
  /\ pc[p] = "delegate"
  /\ IF re = NilRe
     THEN /\ pc' = [pc EXCEPT ![p] = "unwind"]
          /\ panicking' = panicking \cup {p}
          /\ UNCHANGED << re, last, refLongest >>
     ELSE /\ pc' = [pc EXCEPT ![p] = IF cb[p].on THEN "replace" ELSE "returned"]
          /\ last' = [op |-> o, arg |-> a, st |-> "ok", val |-> Delegated(o, re, a),
                      obj |-> re.id]
          /\ re' = ObjAfter(o, re)
          /\ refLongest' = (refLongest \/ o = "Longest")
          /\ UNCHANGED panicking
  /\ UNCHANGED << Re, once, crashed, compiles, first, Re0, loaded, used, cb >>

MatchString(p, s) ==
  /\ ~crashed
  /\ Delegate(p, "MatchString", s)

FindStringSubmatch(p, s) ==
  /\ ~crashed
  /\ Delegate(p, "FindStringSubmatch", s)

String(p) ==
  /\ ~crashed
  /\ Delegate(p, "String", << >>)

Longest(p) ==
  /\ ~crashed
  /\ Delegate(p, "Longest", << >>)

\* replaceAll goes on to r: its end, where ReplaceAllStringFunc returns, or the
\* next call of the function, which calls a pass-through operation of dr.
Continue(p, s, r) ==
  IF r.done
  THEN /\ pc' = [pc EXCEPT ![p] = "returned"]
       /\ cb' = [cb EXCEPT ![p] = NoFrame]
       /\ last' = [op |-> "ReplaceAllStringFunc", arg |-> s, st |-> "ok",
                   val |-> [s |-> r.buf], obj |-> re.id]
  ELSE /\ pc' = [pc EXCEPT ![p] = "init"]
       /\ cb' = [cb EXCEPT ![p] = r.frame]
       /\ last' = last

\* return dr.re.ReplaceAllStringFunc(s, repl), with a repl that calls dr.  One
\* caller at a time is inside ReplaceAllStringFunc; the others use the other
\* operations meanwhile.
ReplaceAllStringFunc(p, s) ==
  /\ ~crashed
  /\ pc[p] = "delegate"
  /\ ~cb[p].on
  /\ \A q \in Callers : ~cb[q].on
  /\ IF re = NilRe
     THEN /\ pc' = [pc EXCEPT ![p] = "unwind"]
          /\ panicking' = panicking \cup {p}
          /\ UNCHANGED << last, cb >>
     ELSE /\ Continue(p, s, RunReplace(NewFrame(s), re))
          /\ UNCHANGED panicking
  /\ UNCHANGED << Re, once, re, crashed, compiles, first, Re0, loaded, used, refLongest >>

\* The function given to ReplaceAllStringFunc returns, and replaceAll goes on.
CallbackReturns(p) ==
  /\ ~crashed
  /\ pc[p] = "replace"
  /\ Continue(p, cb[p].s, RunReplace([cb[p] EXCEPT !.buf = @ \o Repl], re))
  /\ UNCHANGED << Re, once, re, panicking, crashed, compiles, first, Re0, loaded, used,
                  refLongest >>

\* The caller of the operation recovers the panic.
Recover(p) ==
  /\ ~crashed
  /\ pc[p] = "unwind"
  /\ pc' = [pc EXCEPT ![p] = "recovered"]
  /\ panicking' = panicking \ {p}
  /\ last' = [op |-> "pass-through", st |-> "panic"]
  /\ cb' = [cb EXCEPT ![p] = NoFrame]
  /\ UNCHANGED << Re, once, re, crashed, compiles, first, Re0, loaded, used, refLongest >>

\* Nobody recovers the panic: the program exits.
Crash(p) ==
  /\ ~crashed
  /\ pc[p] = "unwind"
  /\ crashed' = TRUE
  /\ UNCHANGED << Re, once, re, pc, panicking, last, compiles, first, Re0, loaded, used,
                  refLongest, cb >>

Next ==
  \E p \in Callers :
    \/ \E text \in Texts : UnmarshalText(p, text)
    \/ MarshalText(p)
    \/ \E in \in Patterns : UnmarshalFlag(p, in)
    \/ MarshalFlag(p)
    \/ Enter(p)
    \/ OnceDo(p)
    \/ DoSlow(p)
    \/ InitFunc(p)
    \/ DeferDone(p)
    \/ DeferUnlock(p)
    \/ \E s \in Inputs : MatchString(p, s)
    \/ \E s \in Inputs : FindStringSubmatch(p, s)
    \/ String(p)
    \/ Longest(p)
    \/ \E s \in ReplInputs : ReplaceAllStringFunc(p, s)
    \/ CallbackReturns(p)
    \/ Recover(p)
    \/ Crash(p)

Spec == Init /\ [][Next]_vars

\* The steps a caller takes once it is inside a pass-through operation.
Step(p) ==
  \/ OnceDo(p)
  \/ DoSlow(p)
  \/ InitFunc(p)
  \/ DeferDone(p)
  \/ DeferUnlock(p)
  \/ \E s \in Inputs : MatchString(p, s)
  \/ \E s \in Inputs : FindStringSubmatch(p, s)
  \/ String(p)
  \/ Longest(p)
  \/ \E s \in ReplInputs : ReplaceAllStringFunc(p, s)
  \/ CallbackReturns(p)
  \/ Recover(p)
  \/ Crash(p)

\* The scheduler runs every goroutine that can run; regexp.MustCompile and
\* the methods of *regexp.Regexp return.
FairSpec == Spec /\ \A p \in Callers : WF_vars(Step(p))

(***************************************************************************)
(* Properties.                                                             *)
(***************************************************************************)
\* The callers that are past dr.init(): it returned, or it panicked.
PastInit ==
  {p \in Callers : pc[p] \in {"delegate", "replace", "returned", "unwind", "recovered"}}

\* The compiled object of pattern P, Longest applied to it as to dr.re.
Compiled(P) == [MustCompile(P).obj EXCEPT !.longest = refLongest]

\* C1: whatever the callers and their interleaving, regexp.MustCompile is
\* called at most once, and it has been called once as soon as one caller
\* is past init() or has returned from a pass-through operation.
C1_CompiledExactlyOnce ==
  /\ compiles <= 1
  /\ PastInit # {} => compiles = 1

\* Every caller has returned from its pass-through operation, with a result,
\* after one compilation.
C1_Witness ==
  /\ \A p \in Callers : pc[p] = "returned"
  /\ last.st = "ok"
  /\ compiles = 1

\* C2 as claimed: for every pattern, a caller that delegates finds dr.re
\* present.
C2_AlwaysPresent ==
  \A p \in Callers : pc[p] = "delegate" => re # NilRe

\* C2, amended: a caller that has passed init() and delegates finds the one
\* compilation over; if that compilation was given a valid pattern, dr.re is
\* present and is the object of that one compilation, for every caller and
\* for every result returned.  After a compilation that panicked, callers
\* pass init() with dr.re nil.
C2_PresentAfterValidCompile ==
  /\ \A p \in Callers :
       pc[p] = "delegate" =>
         /\ once.done
         /\ first.set
         /\ ValidPattern(first.P) => re # NilRe /\ re.id = 1
         /\ ~ValidPattern(first.P) => re = NilRe
  /\ last.op \in UseOps => last.obj = 1 /\ re # NilRe /\ re.id = 1

\* Two callers are about to delegate to the same compiled object, and a
\* third has already got its result from it.
C2_Witness ==
  /\ Cardinality({p \in Callers : pc[p] = "delegate"}) >= 2
  /\ re # NilRe
  /\ last.op \in UseOps

\* C3: as long as no pass-through operation has been entered, whatever loads
\* and renders were called, nothing was compiled and dr.re is nil; and no
\* pass-through operation is over before the compilation.
C3_NoCompileBeforeFirstUse ==
  /\ ~used => compiles = 0 /\ re = NilRe /\ ~once.done
  /\ compiles = 0 => PastInit = {}

\* A load and then a render have been called, no pass-through operation
\* yet, and nothing is compiled.
C3_Witness ==
  /\ ~used
  /\ loaded.op \in LoadOps
  /\ last.op \in RenderOps
  /\ compiles = 0
  /\ re = NilRe

\* "1.2.3"
v123 == <<"1", ".", "2", ".", "3">>

\* C4: as long as nothing was loaded into the instance constructed with
\* pattern Re0, a pass-through operation that returns has returned what the
\* same operation with the same argument returns on the object compiled from
\* Re0, and one that failed was given an invalid Re0; FindStringSubmatch of
\* "1.2.3" under the version pattern returns ["1.2.3", "1", "2", "3"].
C4_PassThroughCorrect ==
  loaded = NoCall =>
    /\ last.op \in UseOps =>
         /\ ValidPattern(Re0)
         /\ last.val = Delegated(last.op, Compiled(Re0), last.arg)
    /\ last.st = "panic" => ~ValidPattern(Re0)
    /\ (last.op = "FindStringSubmatch" /\ Re0 = ex /\ last.arg = v123) =>
         last.val = [strs |-> << v123, <<"1">>, <<"2">>, <<"3">> >>]

\* The version pattern has answered FindStringSubmatch("1.2.3") on a call
\* that was not the first to return.
C4_Witness ==
  /\ loaded = NoCall
  /\ Re0 = ex
  /\ last.op = "FindStringSubmatch"
  /\ last.arg = v123
  /\ Len(last.val.strs) = 4
  /\ Cardinality({p \in Callers : pc[p] = "returned"}) >= 2

\* C5: once the compilation has run on pattern P1, a load of another pattern
\* leaves the compiled object alone: there is no second compilation, the
\* object is still the one compiled from P1, and a pass-through operation
\* returns what the object compiled from P1 returns.
C5_LoadAfterCompileInert ==
  (first.set /\ Re # first.P) =>
    /\ compiles = 1
    /\ re # NilRe => re.id = 1 /\ re.expr = first.P
    /\ re # NilRe <=> ValidPattern(first.P)
    /\ last.op \in UseOps =>
         /\ ValidPattern(first.P)
         /\ last.val = Delegated(last.op, Compiled(first.P), last.arg)

\* MatchString has answered by P1 after a load of a valid P2 under which the
\* answer is another.
C5_Witness ==
  /\ first.set
  /\ Re # first.P
  /\ ValidPattern(Re)
  /\ loaded.op \in LoadOps
  /\ last.op = "MatchString"
  /\ last.val # Delegated("MatchString", Compiled(Re), last.arg)

\* C6: nothing fails before the first use: loads and renders return without
\* error whatever the pattern; an invalid pattern fails the call that runs
\* the compilation, and with it every pass-through call, none of which
\* returns normally; a valid pattern fails none.
C6_DeferredValidity ==
  /\ ~used => ~crashed /\ panicking = {} /\ last.st # "panic"
  /\ last.op \in LoadOps \cup RenderOps => last.st = "ok" /\ last.err = "nil"
  /\ \A p \in Callers :
       pc[p] = "deferDone" => (p \in panicking <=> ~ValidPattern(first.P))
  /\ (first.set /\ ~ValidPattern(first.P)) =>
       /\ re = NilRe
       /\ \A p \in Callers : pc[p] # "returned"
  /\ (first.set /\ ValidPattern(first.P)) =>
       /\ panicking = {}
       /\ ~crashed
       /\ \A p \in Callers : pc[p] \notin {"unwind", "recovered"}

\* An invalid pattern was loaded and rendered without failure, and the
\* first pass-through call then panicked.
C6_Witness ==
  /\ ValidPattern(Re0)
  /\ loaded.op = "UnmarshalFlag"
  /\ first.set
  /\ ~ValidPattern(first.P)
  /\ first.P = loaded.arg
  /\ \E p \in Callers : pc[p] = "done"
  /\ Cardinality({p \in Callers : pc[p] = "recovered"}) = 1
  /\ last.st = "panic"

\* C7: a load that has returned has returned nil and has left dr.Re equal,
\* byte for byte, to the text it was given, whatever the text and whether
\* the instance was uncompiled, compiled, or past a failed compilation.
C7_LoadStoresVerbatim ==
  /\ last.op = "UnmarshalText" =>
       /\ last.st = "ok"
       /\ last.err = "nil"
       /\ BytesOf(Re) = last.arg
  /\ last.op = "UnmarshalFlag" =>
       /\ last.st = "ok"
       /\ last.err = "nil"
       /\ Re = last.arg

\* The version pattern was loaded after the compilation of an invalid
\* pattern had failed.
C7_Witness ==
  /\ last.op = "UnmarshalFlag"
  /\ last.arg = ex
  /\ first.set
  /\ ~ValidPattern(first.P)
  /\ once.done
  /\ re = NilRe

\* C8: a render that has returned has returned the current dr.Re verbatim
\* and a nil error, compiled or not, and a render leaves dr.Re, dr.once and
\* dr.re as they were.
C8_RenderReturnsField ==
  /\ last.op = "MarshalText" =>
       /\ last.st = "ok"
       /\ last.err = "nil"
       /\ last.val = BytesOf(Re)
  /\ last.op = "MarshalFlag" =>
       /\ last.st = "ok"
       /\ last.err = "nil"
       /\ last.val = Re
  /\ MarshalTextOf(dr).dr = dr
  /\ MarshalFlagOf(dr).dr = dr

\* MarshalText has returned P2 on an instance compiled from P1 before P2
\* was loaded.
C8_Witness ==
  /\ last.op = "MarshalText"
  /\ first.set
  /\ re # NilRe
  /\ Re # first.P
  /\ StringOf(last.val) # re.expr

\* C9: for every pattern P, the empty one included, MarshalText of
\* DeferredRegex{P} returns no error and UnmarshalText of what it returned
\* makes a zero DeferredRegex equal to DeferredRegex{P}; on the shared
\* instance the load of the text just rendered leaves the instance as it
\* is, and an instance compiled after such a load answers as the object
\* compiled from P does.
C9_RoundTrip ==
  /\ \A P \in Patterns :
       /\ MarshalTextOf(Fresh(P)).err = "nil"
       /\ UnmarshalTextOf(Fresh(<< >>), MarshalTextOf(Fresh(P)).val) =
            [dr |-> Fresh(P), err |-> "nil"]
  /\ last.op = "MarshalText" =>
       /\ last.err = "nil"
       /\ UnmarshalTextOf(dr, last.val) = [dr |-> dr, err |-> "nil"]
  /\ (loaded.op = "UnmarshalText" /\ loaded.echo) =>
       /\ BytesOf(Re) = loaded.arg
       /\ (last.op \in UseOps /\ first.P = Re) =>
            last.val = Delegated(last.op, Compiled(Re), last.arg)

\* The version pattern was rendered, the text was loaded back, and
\* FindStringSubmatch("1.2.3") then compiled and answered.
C9_Witness ==
  /\ loaded.op = "UnmarshalText"
  /\ loaded.echo
  /\ Re = ex
  /\ first.set
  /\ last.op = "FindStringSubmatch"
  /\ last.arg = v123
  /\ Len(last.val.strs) = 4

\* C10: on every instance state UnmarshalText and UnmarshalFlag of the same
\* content give the same instance and the same nil error, MarshalText and
\* MarshalFlag give the same content, the same nil error and leave the same
\* instance; what one pair loaded the other pair renders unchanged.
C10_PairsEquivalent ==
  /\ \A c \in Patterns : UnmarshalTextOf(dr, BytesOf(c)) = UnmarshalFlagOf(dr, c)
  /\ MarshalTextOf(dr).dr = MarshalFlagOf(dr).dr
  /\ StringOf(MarshalTextOf(dr).val) = MarshalFlagOf(dr).val
  /\ MarshalTextOf(dr).val = BytesOf(MarshalFlagOf(dr).val)
  /\ MarshalTextOf(dr).err = "nil"
  /\ MarshalFlagOf(dr).err = "nil"
  /\ (last.op = "MarshalFlag" /\ loaded.op = "UnmarshalText") =>
       BytesOf(last.val) = loaded.arg
  /\ (last.op = "MarshalText" /\ loaded.op = "UnmarshalFlag") =>
       StringOf(last.val) = loaded.arg

\* The version pattern was loaded by UnmarshalFlag into a compiled instance
\* and rendered by MarshalText.
C10_Witness ==
  /\ last.op = "MarshalText"
  /\ loaded.op = "UnmarshalFlag"
  /\ loaded.arg = ex
  /\ Re0 # ex
  /\ re # NilRe

\* C11 (I1): in every state dr.re is nil or is the object compiled from the
\* value dr.Re held when the one compilation ran (in the matching mode
\* Longest has since given it), and every result returned is that object's;
\* so a pattern loaded before the first use is the one that is compiled.
C11_CompiledFromPatternAtCompile ==
  /\ ~first.set => re = NilRe
  /\ (first.set /\ ~ValidPattern(first.P)) => re = NilRe
  /\ re # NilRe => re = [id |-> 1] @@ Compiled(first.P)
  /\ last.op \in UseOps =>
       /\ ValidPattern(first.P)
       /\ last.val = Delegated(last.op, Compiled(first.P), last.arg)

\* The version pattern was loaded onto DeferredRegex{"a|ab"} before the
\* first use, and FindStringSubmatch("1.2.3") answered by it.
C11_Witness ==
  /\ Re0 = <<"a", "|", "a", "b">>
  /\ loaded.op \in LoadOps
  /\ first.set
  /\ first.P = ex
  /\ last.op = "FindStringSubmatch"
  /\ last.arg = v123
  /\ last.val = [strs |-> << v123, <<"1">>, <<"2">>, <<"3">> >>]

\* C12: the compiled state is terminal: no step of any caller, in a
\* pass-through operation, a load or a render, makes a present dr.re nil
\* again, or puts an object of another compilation or another pattern in
\* its place, and none runs the compilation again.
C12_CompiledIsTerminal ==
  [][re # NilRe =>
       /\ re' # NilRe
       /\ re'.id = re.id
       /\ re'.expr = re.expr
       /\ compiles' = compiles]_vars

\* The instance was compiled by Longest, another pattern was then loaded
\* and rendered, and the object is still there.
C12_Witness ==
  /\ re # NilRe
  /\ refLongest
  /\ loaded.op \in LoadOps
  /\ Re # first.P
  /\ last.op = "MarshalFlag"

Pointer(r) == IF r = NilRe THEN 0 ELSE r.id

\* The step is one of caller p inside a pass-through operation.
PassThroughStep(p) == pc'[p] # pc[p] /\ pc'[p] # "done"

\* C14: no step of a pass-through operation changes dr.Re; all such a step
\* may change in the wrapper is the gate (its mutex, and done going from
\* false to true after the function ran) and dr.re going from nil to the
\* compiled object inside that function; a call that finds the gate done
\* leaves dr.Re, dr.once and dr.re as they are and takes no lock.
C14_PassThroughFrame ==
  [][\A p \in Callers : PassThroughStep(p) =>
       /\ Re' = Re
       /\ once.done => once'.done
       /\ once'.done # once.done => pc[p] = "deferDone"
       /\ Pointer(re') # Pointer(re) => pc[p] = "f" /\ Pointer(re) = 0
       /\ (once.done /\ pc[p] \in {"idle", "init", "delegate"}) =>
            /\ once' = once
            /\ Pointer(re') = Pointer(re)
            /\ pc'[p] # "doSlow"]_vars

\* Two calls have returned from a compiled instance, String() last; the
\* pattern is the constructed one and the gate is done and unlocked.
C14_Witness ==
  /\ pc[1] = "returned"
  /\ pc[2] = "returned"
  /\ last.op = "String"
  /\ once = [done |-> TRUE, m |-> 0]
  /\ loaded = NoCall
  /\ Re = Re0

\* Caller p is inside a pass-through operation.
InCall(p) ==
  pc[p] \in {"init", "doSlow", "f", "deferDone", "deferUnlock", "unlock", "delegate",
             "replace", "unwind"}

\* Caller p waits in m.Lock() for the gate's mutex.
Blocked(p) == pc[p] = "doSlow" /\ once.m # 0

\* C15 as claimed, its second half: a caller is blocked only while the
\* once.Do of the caller that compiles is in progress.
C15_BlockedOnlyDuringCompilation ==
  \A p \in Callers : Blocked(p) => pc[once.m] \in {"f", "deferDone", "deferUnlock"}

\* C15: under fair scheduling every pass-through call returns, or panics
\* and is recovered or ends the program (a caller makes one call and does
\* not come back into it, so this is: from some point on no caller is
\* inside a call, or the program has ended); a caller is blocked only on the
\* gate's mutex, held by another caller that is inside once.Do, either
\* running the compilation or having found it done; a caller that reads
\* the gate after done was stored does not go on to the mutex.
C15_EventuallyReturns ==
  /\ <>[](crashed \/ \A p \in Callers : ~InCall(p))
  /\ [](\A p \in Callers :
          Blocked(p) =>
            /\ once.m # p
            /\ pc[once.m] \in {"f", "deferDone", "deferUnlock", "unlock"})
  /\ [][\A p \in Callers :
          (once.done /\ pc[p] = "init") => pc'[p] # "doSlow"]_vars

\* Two callers wait for the mutex while the third runs the compilation.
C15_Witness ==
  /\ Cardinality({p \in Callers : Blocked(p)}) = 2
  /\ pc[once.m] = "f"

\* C16: the compiled object changes in no step but the delegation of
\* Longest, which sets its matching mode; as long as Longest has not been
\* called the object is as regexp.MustCompile returned it, whatever calls
\* run concurrently, and each of them returns what that object returns to
\* the call alone.
C16_OnlyLongestMutates ==
  /\ [](~refLongest =>
          /\ re # NilRe => re = [id |-> 1] @@ MustCompile(first.P).obj
          /\ last.op \in UseOps =>
               last.val = Delegated(last.op, MustCompile(first.P).obj, last.arg))
  /\ [][(re # NilRe /\ re' # re) =>
          /\ re' = [id |-> re.id] @@ reLongest(re)
          /\ last'.op = "Longest"
          /\ \E p \in Callers :
               pc[p] = "delegate" /\ pc'[p] \in {"returned", "replace"}]_vars

\* Two operations other than Longest have returned, MatchString last, while
\* a third caller is at its delegation; the object is in its first mode.
C16_Witness ==
  /\ ~refLongest
  /\ re # NilRe
  /\ ~re.longest
  /\ Cardinality({p \in Callers : pc[p] = "returned"}) = 2
  /\ \E p \in Callers : pc[p] = "delegate"
  /\ last.op = "MatchString"

\* C17: String() returns the pattern that was compiled, having compiled it
\* if need be, and MarshalText and MarshalFlag return dr.Re; on a compiled
\* instance the three agree while dr.Re is still the pattern that was
\* compiled, and after a load of another pattern String() keeps returning
\* the compiled one while the renders return the loaded one.
C17_StringVsMarshalText ==
  /\ last.op = "String" =>
       /\ first.set
       /\ compiles = 1
       /\ last.val = [s |-> first.P]
  /\ re # NilRe =>
       /\ reString(re) = [s |-> first.P]
       /\ StringOf(MarshalTextOf(dr).val) = Re
       /\ MarshalFlagOf(dr).val = Re
       /\ Re = first.P =>
            /\ StringOf(MarshalTextOf(dr).val) = reString(re).s
            /\ MarshalFlagOf(dr).val = reString(re).s
       /\ Re # first.P =>
            /\ StringOf(MarshalTextOf(dr).val) # reString(re).s
            /\ MarshalFlagOf(dr).val # reString(re).s

\* The version pattern was compiled, "a|ab" was loaded, and String() has
\* returned the version pattern.
C17_Witness ==
  /\ last.op = "String"
  /\ last.val = [s |-> ex]
  /\ loaded.op \in LoadOps
  /\ Re = <<"a", "|", "a", "b">>
  /\ MarshalTextOf(dr).val = BytesOf(<<"a", "|", "a", "b">>)

\* C18: a call made on dr by the function given to ReplaceAllStringFunc
\* finds the gate done and its mutex not held by its own caller, so it
\* passes init() on the fast path, never reaching the mutex or the
\* function of once.Do, and delegates to the object that is there; there
\* is still one compilation only.
C18_ReentrantCallback ==
  \A p \in Callers :
    cb[p].on =>
      /\ pc[p] \in {"init", "delegate", "replace"}
      /\ once.done
      /\ once.m # p
      /\ re # NilRe
      /\ compiles = 1

\* ReplaceAllStringFunc("a") under "a|ab" has returned "-": the function
\* was called, made its call on dr and returned the replacement.
C18_Witness ==
  /\ last.op = "ReplaceAllStringFunc"
  /\ first.set
  /\ first.P = <<"a", "|", "a", "b">>
  /\ last.val = [s |-> <<"-">>]
  /\ compiles = 1
  /\ \A p \in Callers : ~cb[p].on

\* C19: Longest() is a first use like any other: when it has returned the
\* one compilation has run, on the pattern dr.Re held then, and the object
\* is in leftmost-longest mode; from then on the object stays in that mode
\* and stays the object of that pattern whatever is loaded, and every
\* MatchString and FindStringSubmatch answers in leftmost-longest mode; the
\* delegation step of Longest, as of any operation, leaves dr.Re alone.
C19_LongestIsFirstUse ==
  /\ [](/\ last.op = "Longest" => first.set /\ compiles = 1
        /\ refLongest =>
             /\ re = [id |-> 1] @@ reLongest(MustCompile(first.P).obj)
             /\ last.op \in {"MatchString", "FindStringSubmatch"} =>
                  last.val = Delegated(last.op, reLongest(MustCompile(first.P).obj),
                                       last.arg))
  /\ [][\A p \in Callers :
          (pc[p] = "delegate" /\ pc'[p] # pc[p]) => Re' = Re]_vars

\* "a|ab" was compiled by the first call and put in leftmost-longest mode,
\* the version pattern was loaded, and a later FindStringSubmatch("ab")
\* returned "ab", where leftmost-first returns "a".
C19_Witness ==
  /\ refLongest
  /\ first.P = <<"a", "|", "a", "b">>
  /\ Re = ex
  /\ pc[1] = "returned"
  /\ pc[2] = "done"
  /\ pc[3] = "returned"
  /\ last.op = "FindStringSubmatch"
  /\ last.val = [strs |-> << <<"a", "b">> >>]
====
